---- MODULE Spec2Model ----
(***************************************************************************)
(* Model of client/cli/src/runner.rs: the Runner's four invocation modes,  *)
(* run_until_exit, and the shutdown race `main` (unix and not-unix).       *)
(* One behaviour follows one Runner from construction to the return of the *)
(* invocation mode that consumes it.                                       *)
(***************************************************************************)
EXTENDS Integers, Sequences, FiniteSets, TLC

\* Bound on how often the primary operation is polled in one race.
MaxPolls == 3
\* Bound on the threads one pool starts during its lifetime.
MaxThreads == 2
\* Bound on the operations handed to the task executor of one Runner.
MaxTasks == 2
\* Bound on the Runners constructed one after the other in one process.
MaxRunners == 2

----------------------------------------------------------------------------
\* Values

SyncVariants == {"BuildSpec", "PurgeChain"}
AsyncVariants == {"ExportBlocks", "ImportBlocks", "CheckBlock", "Revert", "ExportState"}
Subcommand == SyncVariants \cup AsyncVariants

\* Results are records; an error is a sequence of tags, outermost first.
NoResult == [tag |-> "None", err |-> <<>>]
Pending == [tag |-> "Pending", err |-> <<>>]
Ok == [tag |-> "Ok", err |-> <<>>]
Err(e) == [tag |-> "Err", err |-> e]
IsErr(r) == r.tag = "Err"

\* Error values the external collaborators can produce.
PrimaryErrors == {<<"e1">>, <<"e2">>}
ServiceErrors == {<<"Database">>}
CliErrors == {<<"Input", "bad">>}
IoError(kind) == <<"Io", kind>>

\* `res?` in main: E -> Box<dyn std::error::Error>
BoxErr(e) == <<"Box">> \o e
\* `e.to_string()` of a Box<dyn Error>: the Display text of the boxed error
ToStr(e) == IF Len(e) > 0 /\ Head(e) = "Box" THEN <<"Display">> \o Tail(e)
               ELSE <<"Display">> \o e
\* `?` on Result<_, String> in a function returning crate::Result: From<String>
FromString(s) == <<"Cli">> \o s
\* `?` on sc_service::error::Result in a function returning crate::Result
FromService(e) == <<"Cli", "Service">> \o e

PrimaryOutcomes == {Ok} \cup {Err(e) : e \in PrimaryErrors}
BuilderResults == {Ok} \cup {Err(e) : e \in ServiceErrors}
RunnerResults == {Ok} \cup {Err(e) : e \in CliErrors}

\* Branches of select! in main, per platform
Branches(p) == IF p = "unix" THEN {"int", "term", "primary"} ELSE {"ctrlc", "primary"}
Orders(p) == {o \in [1..Cardinality(Branches(p)) -> Branches(p)] :
                \A i, j \in DOMAIN o : i # j => o[i] # o[j]}

----------------------------------------------------------------------------
VARIABLES
  platform,        \* "unix" | "other": which cfg of main is compiled
  runner,          \* "Constructed" | "Consumed"
  mode,            \* invocation mode that consumed the Runner, or "none"
  variant,         \* subcommand variant of run_subcommand, or "none"
  fn,              \* function body holding the race: "run_until_exit" | "run_node_until_exit" | "none"
  pc,              \* position of the invocation
  pool,            \* tokio_runtime: "alive" | "dropped"
  tm,              \* TaskManager: "none" | "live" | "dropped"
  primary,         \* primary future: "none" | "pending" | "resolved" | "dropped"
  listeners,       \* registered signal listeners
  pendingSig,      \* notifications delivered and not yet consumed
  ctrlc,           \* not-unix ctrl_c() future: "unpolled" | "registered" | "failed"
  builderCalls,    \* calls of builder / initialise / runner
  blockOnCalls,    \* calls of tokio_runtime.block_on
  terminateCalls,  \* calls of task_manager.terminate()
  primaryPolls,    \* polls of the primary future
  raceCount,       \* number of times main returned
  raceWinner,      \* "none" | "int" | "term" | "ctrlc" | "primary" | "regfail"
  raceResult,      \* result of main
  primaryResult,   \* what the primary resolved with, or NoResult
  pollTrace,       \* branches select! polled in the round that ended the race, in order
  calleeResult,    \* what builder / initialise / runner / the synchronous cmd.run returned
  nodeInfoLogged,  \* print_node_infos ran
  result,          \* result of the invocation mode
  threadsAlive,    \* gauge TOKIO_THREADS_ALIVE
  threadsTotal,    \* gauge TOKIO_THREADS_TOTAL
  liveThreads,     \* threads of the current pool that are running
  tasks,           \* operations handed to task_executor, in dispatch order
  aliveAtCreate,   \* TOKIO_THREADS_ALIVE when build_runtime was called
  totalAtCreate,   \* TOKIO_THREADS_TOTAL when build_runtime was called
  runners          \* Runners constructed so far in this process

owner == <<platform, runner, mode, variant, fn>>
resources == <<pool, tm, primary, listeners, pendingSig, ctrlc>>
counters == <<builderCalls, blockOnCalls, terminateCalls, primaryPolls, raceCount>>
race == <<raceWinner, raceResult, primaryResult, pollTrace>>
outcome == <<race, nodeInfoLogged, calleeResult, result>>
gauges == <<threadsAlive, threadsTotal>>
sched == <<liveThreads, tasks>>
created == <<aliveAtCreate, totalAtCreate, runners>>
vars == <<owner, pc, resources, counters, outcome, gauges, sched, created>>

\* Runner::new returned Ok(Runner { config, tokio_runtime, .. }): the values of
\* everything that belongs to one Runner and its invocation
FreshRunner ==
  [runner |-> "Constructed", mode |-> "none", variant |-> "none", fn |-> "none",
   pc |-> "idle", pool |-> "alive", tm |-> "none", primary |-> "none",
   listeners |-> {}, pendingSig |-> {}, ctrlc |-> "unpolled",
   calls |-> 0, raceWinner |-> "none", noResult |-> NoResult, pollTrace |-> <<>>,
   nodeInfoLogged |-> FALSE, liveThreads |-> 0, tasks |-> <<>>]

\* State after the first Runner::new of the process returned; the gauges are
\* process-wide statics that start at zero.
Init ==
  /\ platform \in {"unix", "other"}
  /\ threadsAlive = 0 /\ threadsTotal = 0
  /\ liveThreads = FreshRunner.liveThreads /\ tasks = FreshRunner.tasks
  /\ aliveAtCreate = 0 /\ totalAtCreate = 0 /\ runners = 1
  /\ runner = "Constructed"
  /\ mode = "none" /\ variant = "none" /\ fn = "none"
  /\ pc = "idle"
  /\ pool = "alive" /\ tm = "none" /\ primary = "none"
  /\ listeners = {} /\ pendingSig = {} /\ ctrlc = "unpolled"
  /\ builderCalls = 0 /\ blockOnCalls = 0 /\ terminateCalls = 0
  /\ primaryPolls = 0 /\ raceCount = 0
  /\ raceWinner = "none" /\ raceResult = NoResult /\ primaryResult = NoResult
  /\ pollTrace = <<>> /\ calleeResult = NoResult
  /\ nodeInfoLogged = FALSE
  /\ result = NoResult

----------------------------------------------------------------------------
\* The execution pool: build_runtime and the drop of tokio_runtime

\* Variant of OnThreadStart that forgets TOKIO_THREADS_TOTAL.inc().
OnThreadStart_AliveOnly(g) == <<g[1] + 1, g[2]>>

\* .on_thread_start(|| { TOKIO_THREADS_ALIVE.inc(); TOKIO_THREADS_TOTAL.inc(); })
\* applied to <<alive, total>>
OnThreadStart(g) == <<g[1] + 1, g[2] + 1>>

\* Variant of OnThreadStop without TOKIO_THREADS_ALIVE.dec().
OnThreadStop_NoDec(g) == g

\* .on_thread_stop(|| { TOKIO_THREADS_ALIVE.dec(); })
OnThreadStop(g) == <<g[1] - 1, g[2]>>

\* n threads stop one after the other, each running the stop hook
RECURSIVE StopThreads(_, _)
StopThreads(g, n) == IF n = 0 THEN g ELSE StopThreads(OnThreadStop(g), n - 1)

\* Operations running futures::executor::block_on(fut) to completion: each
\* occupies the thread it runs on until it finishes.
BlockingRunning ==
  {i \in DOMAIN tasks : tasks[i].type = "Blocking" /\ tasks[i].op = "running"}

\* What is left of the tasks when the runtime is dropped: futures that have not
\* completed are dropped with it.
DropUnfinished(ts) ==
  [i \in DOMAIN ts |->
     IF ts[i].op \in {"finished", "failed"} THEN ts[i]
     ELSE [ts[i] EXCEPT !.op = "dropped",
                        !.inter = IF @ = "queued" THEN "dropped" ELSE @]]

\* Variant of ShutdownPool that waits until every spawned operation has ended.
ShutdownPool_JoinTasks ==
  IF pool = "alive"
  THEN /\ \A i \in DOMAIN tasks : tasks[i].op \in {"finished", "failed"}
       /\ pool' = "dropped"
       /\ threadsAlive' = StopThreads(<<threadsAlive, threadsTotal>>, liveThreads)[1]
       /\ threadsTotal' = StopThreads(<<threadsAlive, threadsTotal>>, liveThreads)[2]
       /\ liveThreads' = 0
       /\ tasks' = tasks
  ELSE UNCHANGED <<pool, gauges, sched>>

\* tokio_runtime is dropped: the drop joins every thread of the pool, so it
\* cannot complete while a thread is still inside a blocking operation.
ShutdownPool ==
  IF pool = "alive"
  THEN /\ BlockingRunning = {}
       /\ pool' = "dropped"
       /\ threadsAlive' = StopThreads(<<threadsAlive, threadsTotal>>, liveThreads)[1]
       /\ threadsTotal' = StopThreads(<<threadsAlive, threadsTotal>>, liveThreads)[2]
       /\ liveThreads' = 0
       /\ tasks' = DropUnfinished(tasks)
  ELSE UNCHANGED <<pool, gauges, sched>>

\* A thread of the pool starts and runs the start hook
ThreadStart ==
  /\ pool = "alive"
  /\ threadsTotal - totalAtCreate < MaxThreads
  /\ liveThreads' = liveThreads + 1
  /\ threadsAlive' = OnThreadStart(<<threadsAlive, threadsTotal>>)[1]
  /\ threadsTotal' = OnThreadStart(<<threadsAlive, threadsTotal>>)[2]
  /\ UNCHANGED <<owner, pc, resources, counters, outcome, tasks, created>>

\* An idle thread of the pool exits and runs the stop hook
ThreadStop ==
  /\ pool = "alive"
  /\ liveThreads > Cardinality(BlockingRunning)
  /\ liveThreads' = liveThreads - 1
  /\ threadsAlive' = OnThreadStop(<<threadsAlive, threadsTotal>>)[1]
  /\ threadsTotal' = OnThreadStop(<<threadsAlive, threadsTotal>>)[2]
  /\ UNCHANGED <<owner, pc, resources, counters, outcome, tasks, created>>

----------------------------------------------------------------------------
\* The task executor built in Runner::new, and the operations it was handed

TaskType == {"Async", "Blocking"}

\* Operations that occupy a thread of the blocking bridge / a cooperative worker
BridgeBusy ==
  {i \in DOMAIN tasks : tasks[i].op = "running" /\ tasks[i].thread = "bridge"}
WorkerBusy ==
  {i \in BlockingRunning : tasks[i].thread = "worker"}

\* A cooperative worker thread is running and not stuck inside an operation
WorkerFree == liveThreads > Cardinality(BridgeBusy) + Cardinality(WorkerBusy)

\* task_executor(fut, task_type): what is spawned on the pool.
\*   op:    the operation `fut`;  inter: the intermediary `async move { .. }`
\*   thread: the kind of thread the operation executes on
TaskExecutor(ty) ==
  IF ty = "Async"
  THEN [type |-> "Async", inter |-> "none", op |-> "queued", thread |-> "none"]
  ELSE [type |-> "Blocking", inter |-> "queued", op |-> "held", thread |-> "none"]

\* Variant of IntermediaryBody that runs block_on(fut) in the spawned task
\* itself, on the worker that polls it.
IntermediaryBody_OnWorker(t) ==
  [t EXCEPT !.inter = "running", !.op = "running", !.thread = "worker"]

\* Variant of IntermediaryBody that awaits the JoinHandle of spawn_blocking.
IntermediaryBody_Await(t) ==
  [t EXCEPT !.inter = "awaiting", !.op = "handed", !.thread = "bridge"]

\* Body of the intermediary: `tokio::task::spawn_blocking(move || block_on(fut))`
\* with no `.await` on the JoinHandle: the operation is handed to the bridge
\* and the intermediary is complete.
IntermediaryBody(t) ==
  [t EXCEPT !.inter = "done", !.op = "handed", !.thread = "bridge"]

\* The service (builder / initialise / runner) calls the task executor it was
\* given in the Configuration.
Dispatch(ty) ==
  /\ pc = "block_on"
  /\ pool = "alive"
  /\ Len(tasks) < MaxTasks
  /\ tasks' = Append(tasks, TaskExecutor(ty))
  /\ UNCHANGED <<owner, pc, resources, counters, outcome, gauges, liveThreads, created>>

\* A worker polls a spawned Async operation for the first time
RunAsync(i) ==
  /\ pool = "alive"
  /\ i \in DOMAIN tasks
  /\ tasks[i].type = "Async" /\ tasks[i].op = "queued"
  /\ WorkerFree
  /\ tasks' = [tasks EXCEPT ![i].op = "running", ![i].thread = "worker"]
  /\ UNCHANGED <<owner, pc, resources, counters, outcome, gauges, liveThreads, created>>

\* A worker runs the intermediary of a Blocking operation
RunIntermediary(i) ==
  /\ pool = "alive"
  /\ i \in DOMAIN tasks
  /\ tasks[i].inter = "queued"
  /\ WorkerFree
  /\ tasks' = [tasks EXCEPT ![i] = IntermediaryBody(tasks[i])]
  /\ UNCHANGED <<owner, pc, resources, counters, outcome, gauges, liveThreads, created>>

\* A thread of the blocking bridge takes a handed operation and starts
\* futures::executor::block_on(fut)
BridgeRun(i) ==
  /\ pool = "alive"
  /\ i \in DOMAIN tasks
  /\ tasks[i].op = "handed"
  /\ liveThreads > Cardinality(BlockingRunning)
  /\ tasks' = [tasks EXCEPT ![i].op = "running"]
  /\ UNCHANGED <<owner, pc, resources, counters, outcome, gauges, liveThreads, created>>

\* A running operation finishes or fails
TaskFinish(i, how) ==
  /\ pool = "alive"
  /\ i \in DOMAIN tasks
  /\ tasks[i].op = "running"
  /\ how \in {"finished", "failed"}
  /\ tasks' = [tasks EXCEPT ![i].op = how]
  /\ UNCHANGED <<owner, pc, resources, counters, outcome, gauges, liveThreads, created>>

\* task_manager.future(): ready as soon as any one owned task finished or failed
TaskManagerFutureReady ==
  \E i \in DOMAIN tasks : tasks[i].op \in {"finished", "failed"}

\* What a poll of the primary may return: in run_node_until_exit the primary is
\* task_manager.future(), elsewhere it is the caller's future.
PrimaryMayReturn(po) ==
  fn = "run_node_until_exit" => ((po = Pending) <=> ~TaskManagerFutureReady)

----------------------------------------------------------------------------
\* Invocation modes (each takes `self` by value)

\* The mode returns r without reaching the race; `self` (config, tokio_runtime)
\* goes out of scope at the end of the method.
ReturnDirect(r) ==
  /\ result' = r
  /\ ShutdownPool
  /\ pc' = "done"
  /\ UNCHANGED <<tm, primary, fn>>

\* The builder returned a TaskManager; the primary future exists (not yet polled)
\* and control is about to reach block_on(main(..)) in function f.
EnterRace(f) ==
  /\ tm' = "live"
  /\ primary' = "pending"
  /\ fn' = f
  /\ pc' = "block_on"
  /\ UNCHANGED <<pool, result, gauges, sched>>

\* Variant of AfterBuilder that forgets the `?`: the race is entered whatever
\* the builder returned.
AfterBuilder_NoCheck(b, f, e) ==
  EnterRace(f)

\* `builder(self.config)?` / `initialise(self.config)?` / `runner(self.config)?`
AfterBuilder(b, f, e) ==
  IF IsErr(b) THEN ReturnDirect(Err(e)) ELSE EnterRace(f)

\* Variant of Consume for methods that borrow the Runner (&self): it can be
\* invoked again after a mode has returned.
Consume_ByRef(m, v) ==
  /\ pc \in {"idle", "done"}
  /\ runner' = "Consumed"
  /\ mode' = m
  /\ variant' = v
  /\ UNCHANGED <<platform, created>>

\* `self` is taken by value: only a Runner nobody has consumed can be invoked
Consume(m, v) ==
  /\ pc = "idle"
  /\ runner = "Constructed"
  /\ runner' = "Consumed"
  /\ mode' = m
  /\ variant' = v
  /\ UNCHANGED <<platform, created>>

\* Variant of RunSubcommandSync written like the asynchronous arms: it calls the
\* builder before running the command.
RunSubcommandSync_Builder(sc) ==
  /\ sc \in SyncVariants
  /\ Consume("run_subcommand", sc)
  /\ builderCalls' = builderCalls + 1
  /\ \E r \in RunnerResults : calleeResult' = r /\ ReturnDirect(r)
  /\ UNCHANGED <<listeners, pendingSig, ctrlc, blockOnCalls, terminateCalls,
                 primaryPolls, raceCount, race, nodeInfoLogged>>

\* run_subcommand, BuildSpec / PurgeChain arms: cmd.run(..) is the return value
RunSubcommandSync(sc) ==
  /\ sc \in SyncVariants
  /\ Consume("run_subcommand", sc)
  /\ \E r \in RunnerResults : calleeResult' = r /\ ReturnDirect(r)
  /\ UNCHANGED <<listeners, pendingSig, ctrlc, counters,
                 race, nodeInfoLogged>>

\* Variant of RunSubcommandAsync whose CheckBlock arm calls the builder twice.
RunSubcommandAsync_Twice(sc) ==
  /\ sc \in AsyncVariants
  /\ Consume("run_subcommand", sc)
  /\ builderCalls' = builderCalls + (IF sc = "CheckBlock" THEN 2 ELSE 1)
  /\ \E b \in BuilderResults :
       calleeResult' = b /\ AfterBuilder(b, "run_until_exit", FromService(b.err))
  /\ UNCHANGED <<listeners, pendingSig, ctrlc, blockOnCalls, terminateCalls,
                 primaryPolls, raceCount,
                 race, nodeInfoLogged>>

\* run_subcommand, the five arms that call builder and run_until_exit
RunSubcommandAsync(sc) ==
  /\ sc \in AsyncVariants
  /\ Consume("run_subcommand", sc)
  /\ builderCalls' = builderCalls + 1
  /\ \E b \in BuilderResults :
       calleeResult' = b /\ AfterBuilder(b, "run_until_exit", FromService(b.err))
  /\ UNCHANGED <<listeners, pendingSig, ctrlc, blockOnCalls, terminateCalls,
                 primaryPolls, raceCount,
                 race, nodeInfoLogged>>

RunNodeUntilExit ==
  /\ Consume("run_node_until_exit", "none")
  /\ nodeInfoLogged' = TRUE
  /\ builderCalls' = builderCalls + 1
  /\ \E b \in BuilderResults :
       calleeResult' = b /\ AfterBuilder(b, "run_node_until_exit", FromService(b.err))
  /\ UNCHANGED <<listeners, pendingSig, ctrlc, blockOnCalls, terminateCalls,
                 primaryPolls, raceCount, race>>

\* Variant of SyncRun written like async_run: the result of the runner is put
\* through the shutdown race.
SyncRun_Raced ==
  /\ Consume("sync_run", "none")
  /\ builderCalls' = builderCalls + 1
  /\ \E b \in RunnerResults :
       calleeResult' = b /\ AfterBuilder(b, "run_until_exit", b.err)
  /\ UNCHANGED <<listeners, pendingSig, ctrlc, blockOnCalls, terminateCalls,
                 primaryPolls, raceCount,
                 race, nodeInfoLogged>>

SyncRun ==
  /\ Consume("sync_run", "none")
  /\ builderCalls' = builderCalls + 1
  /\ \E r \in RunnerResults : calleeResult' = r /\ ReturnDirect(r)
  /\ UNCHANGED <<listeners, pendingSig, ctrlc, blockOnCalls, terminateCalls,
                 primaryPolls, raceCount,
                 race, nodeInfoLogged>>

\* runner returns crate::Result, so `?` keeps its error as it is
AsyncRun ==
  /\ Consume("async_run", "none")
  /\ builderCalls' = builderCalls + 1
  /\ \E b \in RunnerResults :
       calleeResult' = b /\ AfterBuilder(b, "run_until_exit", b.err)
  /\ UNCHANGED <<listeners, pendingSig, ctrlc, blockOnCalls, terminateCalls,
                 primaryPolls, raceCount,
                 race, nodeInfoLogged>>

----------------------------------------------------------------------------
\* The shutdown race: tokio_runtime.block_on(main(f))

\* unix main, `signal(SignalKind::interrupt())?` then `signal(SignalKind::terminate())?`:
\* the result of main when a registration fails, NoResult when both succeed
Register(regInt, regTerm) ==
  IF ~regInt THEN Err(BoxErr(IoError("interrupt")))
  ELSE IF ~regTerm THEN Err(BoxErr(IoError("terminate")))
  ELSE NoResult

\* main returns r: its locals (signal streams, t1, t2, and for
\* run_node_until_exit the future it was given by value) are dropped.
MainReturns(w, r) ==
  /\ raceWinner' = w
  /\ raceResult' = r
  /\ raceCount' = raceCount + 1
  /\ listeners' = {}
  /\ pc' = "main_ret"

\* block_on is entered and main runs up to its select!
BlockOnMain ==
  /\ pc = "block_on"
  /\ blockOnCalls' = blockOnCalls + 1
  /\ IF platform = "unix"
     THEN \E regInt, regTerm \in BOOLEAN :
            IF IsErr(Register(regInt, regTerm))
            THEN /\ MainReturns("regfail", Register(regInt, regTerm))
                 /\ primary' = IF fn = "run_node_until_exit" THEN "dropped" ELSE primary
            ELSE /\ listeners' = {"int", "term"}
                 /\ pc' = "select"
                 /\ UNCHANGED <<raceWinner, raceResult, raceCount, primary>>
     ELSE /\ pc' = "select"
          /\ UNCHANGED <<listeners, raceWinner, raceResult, raceCount, primary>>
  /\ UNCHANGED <<owner, pool, tm, pendingSig, ctrlc, builderCalls, terminateCalls,
                 primaryPolls, primaryResult, pollTrace, nodeInfoLogged,
                 calleeResult, result, gauges, sched, created>>

\* The OS delivers a signal to a registered listener
Signal(k) ==
  /\ k \in listeners
  /\ k \notin pendingSig
  /\ pendingSig' = pendingSig \cup {k}
  /\ UNCHANGED <<owner, pc, pool, tm, primary, listeners, ctrlc, counters, outcome,
                 gauges, sched, created>>

\* Variant of BranchReady that only listens to SIGINT.
BranchReady_IntOnly(b, po, reg) ==
  CASE b = "primary" -> po # Pending
    [] b = "ctrlc"   -> IF ctrlc = "unpolled" THEN ~reg ELSE "ctrlc" \in pendingSig
    [] b = "term"    -> FALSE
    [] OTHER         -> b \in pendingSig

\* Does polling branch b return Ready?  po is what the primary would return,
\* reg whether a first poll of ctrl_c() manages to install its handler.
BranchReady(b, po, reg) ==
  CASE b = "primary" -> po # Pending
    [] b = "ctrlc"   -> IF ctrlc = "unpolled" THEN ~reg ELSE "ctrlc" \in pendingSig
    [] OTHER         -> b \in pendingSig

\* select! polls its branches in the (pseudo-random) order `order` and takes
\* the first that is Ready; 0 when all are Pending.
WinnerIdx(order, po, reg) ==
  IF \E i \in DOMAIN order : BranchReady(order[i], po, reg)
  THEN CHOOSE i \in DOMAIN order :
         /\ BranchReady(order[i], po, reg)
         /\ \A j \in 1..(i-1) : ~BranchReady(order[j], po, reg)
  ELSE 0

\* Variant of Polled that polls every branch even after one was Ready.
Polled_All(order, w) ==
  order

\* The branches select! polled in this round, in order: it stops at the winner
Polled(order, w) ==
  SubSeq(order, 1, IF w = 0 THEN Len(order) ELSE w)

Range(q) == {q[i] : i \in DOMAIN q}

\* Variant of ArmResult that drops the `?` of `res = t3 => res?`.
ArmResult_Swallow(b, po) ==
  Ok

\* Value of the select! arm that ran, followed by `Ok(())`
ArmResult(b, po) ==
  IF b = "primary" /\ IsErr(po) THEN Err(BoxErr(po.err)) ELSE Ok

\* One poll of main while it is suspended in select!
Poll ==
  /\ pc = "select"
  /\ \E order \in Orders(platform), reg \in BOOLEAN,
        po \in {Pending} \cup PrimaryOutcomes :
       LET w == WinnerIdx(order, po, reg)
           polled == Range(Polled(order, w))
       IN /\ PrimaryMayReturn(po)
          /\ pollTrace' = IF w = 0 THEN pollTrace ELSE Polled(order, w)
          /\ IF "primary" \in polled
             THEN /\ primaryPolls < MaxPolls
                  /\ primaryPolls' = primaryPolls + 1
             ELSE UNCHANGED primaryPolls
          /\ ctrlc' = IF "ctrlc" \in polled /\ ctrlc = "unpolled"
                      THEN (IF reg THEN "registered" ELSE "failed")
                      ELSE ctrlc
          /\ IF w = 0
             THEN /\ listeners' = IF "ctrlc" \in polled THEN listeners \cup {"ctrlc"}
                                  ELSE listeners
                  /\ UNCHANGED <<pc, raceWinner, raceResult, raceCount, primary, primaryResult>>
             ELSE /\ MainReturns(order[w], ArmResult(order[w], po))
                  /\ primaryResult' = IF order[w] = "primary" THEN po ELSE primaryResult
                  /\ primary' = IF fn = "run_node_until_exit" THEN "dropped"
                                ELSE IF order[w] = "primary" THEN "resolved"
                                ELSE primary
  /\ UNCHANGED <<owner, pool, tm, pendingSig, builderCalls, blockOnCalls,
                 terminateCalls, nodeInfoLogged, calleeResult, result,
                 gauges, sched, created>>

----------------------------------------------------------------------------
\* After block_on returned

\* `.map_err(|e| e.to_string())?` with an Err: the function returns, and the
\* TaskManager, the runtime and the future it owns go out of scope.
ErrReturn ==
  /\ pc = "main_ret"
  /\ IsErr(raceResult)
  /\ result' = Err(FromString(ToStr(raceResult.err)))
  /\ tm' = "dropped"
  /\ ShutdownPool
  /\ primary' = "dropped"
  /\ pc' = "done"
  /\ UNCHANGED <<owner, listeners, pendingSig, ctrlc, counters,
                 race, nodeInfoLogged, calleeResult, created>>

\* Variant of Terminate that does not wait for block_on to return.
Terminate_DuringRace ==
  /\ pc \in {"select", "main_ret"}
  /\ ~IsErr(raceResult)
  /\ terminateCalls' = terminateCalls + 1
  /\ pc' = "terminated"
  /\ UNCHANGED <<owner, resources, builderCalls, blockOnCalls, primaryPolls,
                 raceCount, outcome, gauges, sched, created>>

\* task_manager.terminate()
Terminate ==
  /\ pc = "main_ret"
  /\ ~IsErr(raceResult)
  /\ terminateCalls' = terminateCalls + 1
  /\ pc' = "terminated"
  /\ UNCHANGED <<owner, resources, builderCalls, blockOnCalls, primaryPolls,
                 raceCount, outcome, gauges, sched, created>>

\* run_until_exit: drop(tokio_runtime)
DropRuntime ==
  /\ pc = "terminated"
  /\ fn = "run_until_exit"
  /\ ShutdownPool
  /\ pc' = "dropped"
  /\ UNCHANGED <<owner, tm, primary, listeners, pendingSig, ctrlc, counters, outcome,
                 created>>

\* run_node_until_exit: drop(task_manager)
DropTaskManager ==
  /\ pc = "terminated"
  /\ fn = "run_node_until_exit"
  /\ tm' = "dropped"
  /\ pc' = "dropped"
  /\ UNCHANGED <<owner, pool, primary, listeners, pendingSig, ctrlc, counters, outcome,
                 gauges, sched, created>>

\* Ok(()): whatever the function still owns goes out of scope
ReturnOk ==
  /\ pc = "dropped"
  /\ result' = Ok
  /\ tm' = "dropped"
  /\ ShutdownPool
  /\ primary' = "dropped"
  /\ pc' = "done"
  /\ UNCHANGED <<owner, listeners, pendingSig, ctrlc, counters,
                 race, nodeInfoLogged, calleeResult, created>>

----------------------------------------------------------------------------
Next ==
  \/ \E sc \in SyncVariants : RunSubcommandSync(sc)
  \/ \E sc \in AsyncVariants : RunSubcommandAsync(sc)
  \/ RunNodeUntilExit
  \/ SyncRun
  \/ AsyncRun
  \/ BlockOnMain
  \/ \E k \in {"int", "term", "ctrlc"} : Signal(k)
  \/ Poll
  \/ ErrReturn
  \/ Terminate
  \/ DropRuntime
  \/ DropTaskManager
  \/ ReturnOk

\* One Runner, its invocation and the shutdown race
Spec == Init /\ [][Next]_vars

\* Runner::new is called again after the previous Runner was released
NewRunner ==
  /\ pc = "done"
  /\ runners < MaxRunners
  /\ runners' = runners + 1
  /\ aliveAtCreate' = threadsAlive
  /\ totalAtCreate' = threadsTotal
  /\ runner' = FreshRunner.runner
  /\ mode' = FreshRunner.mode /\ variant' = FreshRunner.variant /\ fn' = FreshRunner.fn
  /\ pc' = FreshRunner.pc
  /\ pool' = FreshRunner.pool /\ tm' = FreshRunner.tm /\ primary' = FreshRunner.primary
  /\ listeners' = FreshRunner.listeners /\ pendingSig' = FreshRunner.pendingSig
  /\ ctrlc' = FreshRunner.ctrlc
  /\ builderCalls' = FreshRunner.calls /\ blockOnCalls' = FreshRunner.calls
  /\ terminateCalls' = FreshRunner.calls /\ primaryPolls' = FreshRunner.calls
  /\ raceCount' = FreshRunner.calls
  /\ raceWinner' = FreshRunner.raceWinner
  /\ raceResult' = FreshRunner.noResult /\ primaryResult' = FreshRunner.noResult
  /\ calleeResult' = FreshRunner.noResult /\ result' = FreshRunner.noResult
  /\ pollTrace' = FreshRunner.pollTrace
  /\ nodeInfoLogged' = FreshRunner.nodeInfoLogged
  /\ liveThreads' = FreshRunner.liveThreads /\ tasks' = FreshRunner.tasks
  /\ UNCHANGED <<platform, gauges>>

\* Runners constructed and released one after the other, with the threads of
\* their pools starting and stopping
NextPool ==
  \/ Next
  \/ ThreadStart
  \/ ThreadStop
  \/ NewRunner

PoolSpec == Init /\ [][NextPool]_vars

\* A node run (run_node_until_exit) whose service hands operations to the task
\* executor
NextTasks ==
  \/ RunNodeUntilExit
  \/ BlockOnMain
  \/ \E k \in {"int", "term", "ctrlc"} : Signal(k)
  \/ Poll
  \/ ErrReturn
  \/ Terminate
  \/ DropTaskManager
  \/ ReturnOk
  \/ ThreadStart
  \/ \E ty \in TaskType : Dispatch(ty)
  \/ \E i \in 1..MaxTasks : RunAsync(i)
  \/ \E i \in 1..MaxTasks : RunIntermediary(i)
  \/ \E i \in 1..MaxTasks : BridgeRun(i)
  \/ \E i \in 1..MaxTasks, how \in {"finished", "failed"} : TaskFinish(i, how)

TaskSpec == Init /\ [][NextTasks]_vars

\* A node run whose dispatched operations never finish: the Task Manager's
\* future stays pending for ever.
NextNeverFinish ==
  \/ RunNodeUntilExit
  \/ BlockOnMain
  \/ \E k \in {"int", "term", "ctrlc"} : Signal(k)
  \/ Poll
  \/ ErrReturn
  \/ Terminate
  \/ DropTaskManager
  \/ ReturnOk
  \/ ThreadStart
  \/ \E ty \in TaskType : Dispatch(ty)
  \/ \E i \in 1..MaxTasks : RunAsync(i)
  \/ \E i \in 1..MaxTasks : RunIntermediary(i)
  \/ \E i \in 1..MaxTasks : BridgeRun(i)

\* The thread that called run_node_until_exit keeps running: block_on polls
\* main when it is woken, and the statements after it execute.  Nothing forces
\* the pool to start a spawned operation.
FairNeverFinishSpec ==
  /\ Init /\ [][NextNeverFinish]_vars
  /\ WF_vars(BlockOnMain)
  /\ WF_vars(Poll)
  /\ WF_vars(ErrReturn)
  /\ WF_vars(Terminate)
  /\ WF_vars(DropTaskManager)
  /\ WF_vars(ReturnOk)

TypeOK ==
  /\ platform \in {"unix", "other"}
  /\ runner \in {"Constructed", "Consumed"}
  /\ pc \in {"idle", "block_on", "select", "main_ret", "terminated", "dropped", "done"}
  /\ pool \in {"alive", "dropped"}
  /\ tm \in {"none", "live", "dropped"}
  /\ primary \in {"none", "pending", "resolved", "dropped"}
  /\ listeners \subseteq {"int", "term", "ctrlc"}
  /\ primaryPolls \in 0..MaxPolls

----------------------------------------------------------------------------
\* Properties

Interrupts == {"int", "term", "ctrlc"}
AsyncModes == {"run_subcommand", "run_node_until_exit", "async_run"}

\* C1: in every asynchronous invocation mode, once the builder has returned a
\* Task Manager, terminate() has been executed by the time the invocation
\* returns, whether the primary succeeded, failed, or an interrupt won.
C1_TerminateOnEveryExit ==
  (pc = "done" /\ tm # "none" /\ raceWinner \in Interrupts \cup {"primary"}) =>
    terminateCalls >= 1

\* C2: terminate() is never called while the race is still running and never
\* more than once: every call happens after main has returned.
C2_TerminateOnceAfterRace ==
  [][terminateCalls' # terminateCalls =>
       /\ pc = "main_ret"
       /\ raceCount = 1
       /\ raceWinner # "none"
       /\ terminateCalls = 0
       /\ terminateCalls' = 1]_vars

C2_Witness ==
  pc = "done" /\ terminateCalls = 1 /\ raceWinner = "int" /\ primaryPolls > 0

\* C3: when an interrupt branch of select! resolves, main returns Ok(()), the
\* primary is not polled after that branch in the same round, and it is never
\* polled (nor resolved) in any later step.
C3_InterruptDiscardsPrimary ==
  [][/\ raceWinner' \in Interrupts =>
          /\ raceResult' = Ok
          /\ pollTrace' # <<>>
          /\ pollTrace'[Len(pollTrace')] = raceWinner'
     /\ raceWinner \in Interrupts =>
          /\ primaryPolls' = primaryPolls
          /\ primaryResult' = NoResult]_vars

C3_Witness ==
  /\ pc = "done"
  /\ raceWinner \in {"term", "ctrlc"}
  /\ raceWinner \in pendingSig
  /\ primaryPolls > 0
  /\ primaryResult = NoResult

\* C4: when the primary resolves first, the result of the race is Ok(()) if the
\* primary returned Ok(()) and an error carrying the primary's error value if
\* it returned Err; the invocation then returns success resp. an error.
C4_PrimaryResultIsRaceResult ==
  raceWinner = "primary" =>
    /\ raceResult.tag = primaryResult.tag
    /\ IsErr(primaryResult) => raceResult.err = <<"Box">> \o primaryResult.err
    /\ pc = "done" =>
         /\ result.tag = primaryResult.tag
         /\ IsErr(primaryResult) =>
              result.err = <<"Cli", "Display">> \o primaryResult.err

C4_Witness ==
  /\ pc = "done"
  /\ raceWinner = "primary"
  /\ primaryResult = Err(<<"e2">>)
  /\ pendingSig = {}

\* C5: if the builder / initialiser / runner returns an error, the invocation
\* returns that error; block_on and the race are never entered, the primary is
\* never polled, no Task Manager exists and terminate() is never called.
C5_BuilderErrorReturnedDirectly ==
  (mode \in AsyncModes /\ variant \notin SyncVariants /\ IsErr(calleeResult)) =>
    /\ pc = "done"
    /\ result = Err(IF mode = "async_run" THEN calleeResult.err
                    ELSE <<"Cli", "Service">> \o calleeResult.err)
    /\ blockOnCalls = 0
    /\ raceCount = 0
    /\ raceWinner = "none"
    /\ primaryPolls = 0
    /\ tm = "none"
    /\ terminateCalls = 0

C5_Witness ==
  /\ mode = "run_subcommand"
  /\ variant = "ExportBlocks"
  /\ calleeResult = Err(<<"Database">>)
  /\ pc = "done"

\* C6: the pool is dropped only after terminate() has been called: no state has
\* the pool torn down while an obtained Task Manager was not terminated.
C6_PoolDroppedAfterTerminate ==
  (pool = "dropped" /\ tm # "none") => terminateCalls >= 1

\* C7: run_subcommand with BuildSpec or PurgeChain never calls the builder,
\* never enters block_on or the race, never calls terminate(), and returns the
\* result of the command's own run.
C7_SyncVariantsBypassPool ==
  (mode = "run_subcommand" /\ variant \in SyncVariants) =>
    /\ pc = "done"
    /\ result = calleeResult
    /\ builderCalls = 0
    /\ blockOnCalls = 0
    /\ raceCount = 0
    /\ primaryPolls = 0
    /\ tm = "none"
    /\ terminateCalls = 0

C7_Witness ==
  /\ mode = "run_subcommand"
  /\ variant = "PurgeChain"
  /\ pc = "done"
  /\ IsErr(result)

\* C8: run_subcommand has called the builder exactly once for an asynchronous
\* variant from the moment the arm is entered (so before block_on), and never
\* more than once for any variant.
C8_BuilderCalledOnce ==
  mode = "run_subcommand" =>
    /\ builderCalls <= 1
    /\ variant \in AsyncVariants => builderCalls = 1
    /\ blockOnCalls > 0 => builderCalls = 1

C8_Witness ==
  /\ mode = "run_subcommand"
  /\ variant = "CheckBlock"
  /\ pc = "select"
  /\ builderCalls = 1

\* C9: on unix, a poll of the race with a SIGINT or SIGTERM notification
\* pending ends the race; it ends once, with Ok(()) when a signal branch won,
\* the winner is a signal that arrived (or the primary), and both listeners
\* are released when main returns.
C9_EitherSignalEndsRace ==
  [][(platform = "unix" /\ pc = "select" /\ pendingSig # {}
        /\ pendingSig' = pendingSig) =>
       /\ pc' = "main_ret"
       /\ raceCount = 0 /\ raceCount' = 1
       /\ raceWinner' \in pendingSig \cup {"primary"}
       /\ raceWinner' \in pendingSig => raceResult' = Ok
       /\ listeners' = {}]_vars

C9_Witness ==
  /\ platform = "unix"
  /\ pc = "main_ret"
  /\ raceWinner = "term"
  /\ pendingSig = {"term"}
  /\ raceResult = Ok
  /\ listeners = {}

\* C10: if registering a signal listener fails, the race returns an error, the
\* primary is never polled, and the invocation returns an error.
C10_RegistrationFailureIsError ==
  (raceWinner = "regfail" \/ ctrlc = "failed") =>
    /\ IsErr(raceResult)
    /\ primaryPolls = 0
    /\ pc = "done" => IsErr(result)

\* C13: for any number of pool construct/destroy cycles, 'threads alive' after
\* a pool has been dropped equals its value before that pool was created:
\* every thread start added one and every thread stop took one away.
C13_AliveReturnsAfterDrop ==
  /\ threadsAlive = aliveAtCreate + liveThreads
  /\ pool = "dropped" => threadsAlive = aliveAtCreate

C13_Witness ==
  /\ runners = 2
  /\ pool = "dropped"
  /\ totalAtCreate > 0
  /\ threadsTotal = totalAtCreate + 2
  /\ threadsAlive = aliveAtCreate

\* C15: running BuildSpec or PurgeChain through a Runner leaves 'threads alive'
\* and 'threads total' at the values they had when the Runner was constructed.
C15_SyncVariantsKeepGauges ==
  (mode = "run_subcommand" /\ variant \in SyncVariants) =>
    /\ threadsAlive = aliveAtCreate
    /\ threadsTotal = totalAtCreate

\* C20: 0 <= 'threads alive' <= 'threads total' always; 'threads total' never
\* decreases; the gauges change only when threads start (both +1) or stop
\* ('threads alive' -1 per stopped thread, 'threads total' unchanged).
C20_GaugesFollowThreads ==
  [][/\ 0 <= threadsAlive' /\ threadsAlive' <= threadsTotal'
     /\ threadsTotal' >= threadsTotal
     /\ gauges' # gauges =>
          \/ /\ liveThreads' = liveThreads + 1
             /\ threadsAlive' = threadsAlive + 1
             /\ threadsTotal' = threadsTotal + 1
          \/ /\ liveThreads' < liveThreads
             /\ threadsAlive' = threadsAlive - (liveThreads - liveThreads')
             /\ threadsTotal' = threadsTotal
     /\ gauges' = gauges => liveThreads' = liveThreads]_vars

C20_Witness ==
  /\ runners = 2
  /\ threadsTotal = 3
  /\ threadsAlive = 1
  /\ liveThreads = 1
  /\ pool = "alive"

\* C11 (as claimed): run_node_until_exit with a Task Manager whose tasks never
\* finish eventually returns Ok(()) once an interrupt fires, with terminate()
\* called exactly once, without waiting for the unfinished tasks.
C11_ReturnsAfterInterrupt ==
  (fn = "run_node_until_exit" /\ pc = "select" /\ pendingSig # {})
    ~> (pc = "done" /\ result = Ok /\ terminateCalls = 1)

\* C11 (amended): the same, unless a Blocking operation is still running on
\* the blocking bridge when the Runner is released after terminate(): the drop
\* of the runtime waits for that operation.
C11_ReturnsUnlessBlockingRuns ==
  (fn = "run_node_until_exit" /\ pc = "select" /\ pendingSig # {})
    ~> \/ pc = "done" /\ result = Ok /\ terminateCalls = 1
       \/ pc = "dropped" /\ terminateCalls = 1 /\ BlockingRunning # {}

C11_Witness ==
  /\ fn = "run_node_until_exit"
  /\ pc = "done"
  /\ raceWinner \in Interrupts
  /\ result = Ok
  /\ terminateCalls = 1
  /\ ~TaskManagerFutureReady
  /\ Len(tasks) = 2
  /\ \E i \in DOMAIN tasks : tasks[i].type = "Async" /\ tasks[i].thread = "worker"
                              /\ tasks[i].op = "dropped"

\* C12: a Blocking operation never executes on a cooperative worker: it runs
\* on the blocking bridge, handed over by an intermediary; an Async operation
\* runs on a worker; and while a worker thread is alive a queued Async
\* operation can always be started, whatever Blocking operations are running.
C12_BlockingOffWorkers ==
  \A i \in DOMAIN tasks :
    /\ (tasks[i].type = "Blocking" /\ tasks[i].thread # "none") =>
         tasks[i].thread = "bridge" /\ tasks[i].inter = "done"
    /\ (tasks[i].type = "Async" /\ tasks[i].thread # "none") =>
         tasks[i].thread = "worker" /\ tasks[i].inter = "none"
    /\ (tasks[i].type = "Async" /\ tasks[i].op = "queued" /\ pool = "alive"
          /\ liveThreads > Cardinality(BridgeBusy)) =>
         ENABLED RunAsync(i)

C12_Witness ==
  /\ pool = "alive"
  /\ Len(tasks) = 2
  /\ tasks[1].type = "Blocking" /\ tasks[1].op = "running" /\ tasks[1].thread = "bridge"
  /\ tasks[2].type = "Async" /\ tasks[2].op = "running" /\ tasks[2].thread = "worker"

\* C17: the intermediary of a Blocking dispatch is complete as soon as the
\* operation has been handed to the bridge, whether the operation is waiting,
\* running, finished or failed.
C17_IntermediaryFireAndForget ==
  \A i \in DOMAIN tasks :
    (tasks[i].type = "Blocking" /\ tasks[i].op \in {"handed", "running", "finished", "failed"})
      => tasks[i].inter = "done"

C17_Witness ==
  \E i \in DOMAIN tasks :
    /\ tasks[i].type = "Blocking"
    /\ tasks[i].op = "running"
    /\ tasks[i].inter = "done"
    /\ pc = "select"

\* C19: in run_node_until_exit with no interrupt, the race resolves once one
\* task has finished or failed, whatever the others do, and the remaining
\* tasks are then asked to cancel: terminate() has run when the call returns.
C19_AnyTaskEndsRaceThenTerminate ==
  (fn = "run_node_until_exit" /\ raceWinner = "primary") =>
    /\ TaskManagerFutureReady
    /\ pc = "done" => terminateCalls = 1

\* C14: a Runner goes Constructed -> Consumed on the first invocation of a
\* mode and no mode starts on a Consumed Runner, so at most one block_on and
\* one race happen per Runner.
C14_RunnerSingleUse ==
  [][/\ mode' # mode =>
          /\ runner = "Constructed" /\ mode = "none"
          /\ runner' = "Consumed"
     /\ runner = "Consumed" => runner' = "Consumed" /\ mode' = mode
     /\ builderCalls' <= 1
     /\ blockOnCalls' <= 1
     /\ raceCount' <= 1]_vars

C14_Witness ==
  /\ runner = "Consumed"
  /\ mode = "async_run"
  /\ pc = "done"
  /\ raceCount = 1

\* C16: whichever side loses the race has been dropped by the time main has
\* returned, so before terminate() and before the pool is dropped: the primary
\* when an interrupt won, the signal listeners when the primary won.
C16_LoserDroppedAtRaceReturn ==
  pc \in {"main_ret", "terminated", "dropped", "done"} =>
    /\ raceWinner \in Interrupts => primary = "dropped"
    /\ raceWinner = "primary" => listeners = {}

\* C18: sync_run calls the supplied function once and returns its result; it
\* never enters block_on or the race and never calls terminate().
C18_SyncRunDirect ==
  mode = "sync_run" =>
    /\ pc = "done"
    /\ builderCalls = 1
    /\ result = calleeResult
    /\ blockOnCalls = 0
    /\ raceCount = 0
    /\ primaryPolls = 0
    /\ tm = "none"
    /\ terminateCalls = 0

C18_Witness ==
  /\ mode = "sync_run"
  /\ pc = "done"
  /\ result = Err(<<"Input", "bad">>)

====
